---------------------------- MODULE Spec2Model ----------------------------
(***************************************************************************)
(* A model of the gsn command-line tools: the certificate subsystem        *)
(* (generateECDSAKeyPair, createCSR, signCSRToPKCS7, CertificateGeneration)*)
(* and the file renamer (cleanFileName, UpdateAndRenameFilesInDirectory).  *)
(*                                                                         *)
(* Strings are sequences of one-character strings, so that the code's      *)
(* character loops (cleanFileName, url.Parse's getScheme) can be followed. *)
(* DER is a sequence of bytes 0..255.                                      *)
(*                                                                         *)
(* Every function has a specification of its own (SpecCSR, SpecSign,       *)
(* SpecGen, SpecClean, SpecRename) whose Init draws the function's inputs  *)
(* from bounded sets; the variables of the other functions stay idle.      *)
(***************************************************************************)
EXTENDS Integers, Sequences, FiniteSets, TLC

(***************************************************************************)
(* Bounds of the model.                                                    *)
(***************************************************************************)
\* longest altNames list given to createCSR
MaxAlt == 3
\* longest DNS-name list of a CSR handed to signCSRToPKCS7
MaxDns == 2
\* longest CSR text, in lines, handed to signCSRToPKCS7
MaxPemLines == 3
\* how often the wall clock advances during one run
MaxTick == 2
\* largest validity period, in days, besides the one the command uses
MaxDays == 2
MaxNameLen == 5
MaxEntries == 3

VARIABLES
    \* ---- generateECDSAKeyPair / createCSR
    keyPair,          \* the generated key pair, NoKey before generation
    keyErr,           \* generateECDSAKeyPair's error: "unset", "" or the message
    commonName,       \* createCSR parameter
    altNames,         \* createCSR parameter: [isNil, elems]
    csrResult,        \* createCSR's return value: [err, CSR, CSRPEM]
    \* ---- signCSRToPKCS7
    csrPEM,           \* parameter: the CSR text, a sequence of lines
    signingPrivateKey,\* parameter
    validityDays,     \* parameter
    block,            \* local: the decoded PEM block
    csr,              \* local: the parsed request
    serialNumber,     \* local
    notBefore,        \* local
    notAfter,         \* local
    template,         \* local: the certificate template
    cert,             \* local: the certificate created (certBytes and what it holds)
    emptySet,         \* local
    certSet,          \* local
    signedDataBytes,  \* local
    pkcs7DER,         \* local
    ret,              \* the return value: [text, err]
    \* ---- control and environment
    pc,               \* the position of the running function
    caller,           \* "sign": signCSRToPKCS7 alone, "gen": CertificateGeneration
    clock,            \* the wall clock time.Now() reads
    ticks,            \* how often the clock advanced
    stdout,           \* what the command printed, in order
    ran,              \* history: the steps of signCSRToPKCS7 executed, in order
    failedAt,         \* history: the steps of signCSRToPKCS7 whose call failed
    \* ---- cleanFileName
    baseName,         \* cleanFileName's parameter: the base name to clean
    cleaned,          \* the return value: [text, err]
    \* ---- UpdateAndRenameFilesInDirectory
    dir,              \* the directory: a set of entries [name, isDir]
    extension,        \* the extension flag, leading dot trimmed
    entries,          \* what os.ReadDir returned, sorted by name
    idx,              \* the loop's position in entries
    renamedCount,     \* the loop's counter
    reported,         \* the count printed at the end, -1 before
    renames           \* history: [old, new, before] of every os.Rename that succeeded

keyVars  == <<keyPair, keyErr, commonName, altNames, csrResult>>
signArgs == <<csrPEM, signingPrivateKey, validityDays>>
signLocals == <<block, csr, serialNumber, notBefore, notAfter, template, cert,
                emptySet, certSet, signedDataBytes, pkcs7DER>>
envVars  == <<clock, ticks>>
certVars == <<keyVars, signArgs, signLocals, ret, pc, caller, envVars, stdout, ran, failedAt>>
fileVars == <<baseName, cleaned, dir, extension, entries, idx, renamedCount, reported, renames>>
vars == <<certVars, fileVars>>

(***************************************************************************)
(* Helpers.                                                                *)
(***************************************************************************)
Range(s) == { s[i] : i \in 1..Len(s) }

SeqsUpTo(S, n) == UNION { [1..k -> S] : k \in 0..n }

\* the smallest index of s holding x (0 when none)
FirstIndex(s, x) ==
    IF \E i \in 1..Len(s) : s[i] = x
    THEN CHOOSE i \in 1..Len(s) : s[i] = x /\ \A j \in 1..(i-1) : s[j] # x
    ELSE 0

\* the public key of private key k
Pub(k) == [of |-> k]

\* values that stand for "not set"
NoKey   == [PrivateKey |-> "none", PrivateKeyPEM |-> <<>>]
NoSubject == [CommonName |-> <<>>]
NoCSR   == [err |-> "unset",
            CSR |-> [Subject |-> NoSubject, DNSNames |-> <<>>, PublicKey |-> Pub("none")],
            CSRPEM |-> <<>>]
NoRet   == [text |-> <<>>, err |-> "unset"]

(***************************************************************************)
(* Keys, DER values and PEM text.                                          *)
(*                                                                         *)
(* What crypto/x509 encodes is kept as a record (a request's subject, DNS  *)
(* names and public key); kind tells a request from a key and from bytes   *)
(* that are no DER at all.  PEM text is a sequence of lines: a BEGIN line, *)
(* a data line holding the bytes, an END line, or any other line.          *)
(***************************************************************************)
Keys == {"k1", "k2"}


Der(kind, subject, dns, pub) ==
    [kind |-> kind, Subject |-> subject, DNSNames |-> dns, PublicKey |-> pub]

EmptyDer == Der("empty", NoSubject, <<>>, Pub("none"))
JunkDer  == Der("junk", NoSubject, <<>>, Pub("none"))

\* x509.MarshalPKCS8PrivateKey
MarshalPKCS8PrivateKey(k) == Der("key", NoSubject, <<>>, Pub(k))

BeginLine(t)  == [kind |-> "begin", type |-> t, bytes |-> EmptyDer]
EndLine(t)    == [kind |-> "end", type |-> t, bytes |-> EmptyDer]
DataLine(d)   == [kind |-> "data", type |-> "", bytes |-> d]
OtherLine     == [kind |-> "other", type |-> "", bytes |-> EmptyDer]

\* pem.EncodeToMemory(&pem.Block{Type: t, Bytes: d})
PemEncodeToMemory(t, d) == <<BeginLine(t), DataLine(d), EndLine(t)>>

NilBlock == [isNil |-> TRUE, Type |-> "", Bytes |-> EmptyDer]

\* pem.Decode: the first BEGIN line that is closed by the END line of its own
\* type, with the data between them; the nil block when there is none
RECURSIVE PemDecode(_)
PemDecode(text) ==
    IF text = <<>> THEN NilBlock
    ELSE IF text[1].kind = "begin" /\ Len(text) >= 3 /\ text[2].kind = "data"
            /\ text[3] = EndLine(text[1].type)
         THEN [isNil |-> FALSE, Type |-> text[1].type, Bytes |-> text[2].bytes]
    ELSE IF text[1].kind = "begin" /\ Len(text) >= 2 /\ text[2] = EndLine(text[1].type)
         THEN [isNil |-> FALSE, Type |-> text[1].type, Bytes |-> EmptyDer]
    ELSE PemDecode(Tail(text))

\* x509.ParseCertificateRequest: the request the bytes hold, or an error
ParseCertificateRequest(d) ==
    IF d.kind = "csr"
    THEN [err |-> FALSE,
          CSR |-> [Subject |-> d.Subject, DNSNames |-> d.DNSNames, PublicKey |-> d.PublicKey]]
    ELSE [err |-> TRUE, CSR |-> NoCSR.CSR]

\* x509.CreateCertificateRequest: the bytes of the request signed with priv
CreateCertificateRequest(tmpl, priv) ==
    Der("csr", tmpl.Subject, tmpl.DNSNames, Pub(priv))

(***************************************************************************)
(* createCSR                                                               *)
(***************************************************************************)
\* the names createCSR is called with in SpecCSR
CsrNames == { <<"a">>, <<"b">>, <<"a", ":", "b">> }

NilSlice == [isNil |-> TRUE, elems |-> <<>>]
Slice(s) == [isNil |-> FALSE, elems |-> s]

\* lines 448-452: commonName, then the alt-names unless the slice is nil
BuildDNSNames(cn, alt) ==
    IF ~alt.isNil THEN <<cn>> \o alt.elems ELSE <<cn>>

\* one round of the loop of lines 457-462
DedupStep_NoCheck(name, uniqueDNS, finalDNS) ==
    [uniqueDNS |-> uniqueDNS \cup {name}, finalDNS |-> Append(finalDNS, name)]

DedupStep(name, uniqueDNS, finalDNS) ==
    IF name \notin uniqueDNS
    THEN [uniqueDNS |-> uniqueDNS \cup {name}, finalDNS |-> Append(finalDNS, name)]
    ELSE [uniqueDNS |-> uniqueDNS, finalDNS |-> finalDNS]

\* lines 455-462: the loop over dnsNames, from index i
RECURSIVE RemoveDuplicates(_, _, _, _)
RemoveDuplicates(dnsNames, i, uniqueDNS, finalDNS) ==
    IF i > Len(dnsNames) THEN finalDNS
    ELSE LET st == DedupStep(dnsNames[i], uniqueDNS, finalDNS)
         IN  RemoveDuplicates(dnsNames, i + 1, st.uniqueDNS, st.finalDNS)

\* lines 465-469: the request template
CSRTemplate(cn, alt) ==
    [Subject  |-> [CommonName |-> cn],
     DNSNames |-> RemoveDuplicates(BuildDNSNames(cn, alt), 1, {}, <<>>)]

\* createCSR, lines 411-493.  outcome is what the environment lets the two
\* library calls do: "ok", or the call that fails.
CreateCSR ==
    /\ pc = "createCSR"
    /\ \E outcome \in {"ok", "create", "parse"} :
          LET tmpl     == CSRTemplate(commonName, altNames)
              csrBytes == CreateCertificateRequest(tmpl, keyPair.PrivateKey)
              parsed   == ParseCertificateRequest(csrBytes)
          IN  csrResult' =
                IF outcome = "create" THEN [NoCSR EXCEPT !.err = "failed to create CSR"]
                ELSE IF outcome = "parse" \/ parsed.err
                     THEN [NoCSR EXCEPT !.err = "failed to parse CSR"]
                ELSE [err |-> "", CSR |-> parsed.CSR,
                      CSRPEM |-> PemEncodeToMemory("CERTIFICATE REQUEST", csrBytes)]
    /\ pc' = "csrReturned"
    /\ UNCHANGED <<keyPair, keyErr, commonName, altNames, signArgs, signLocals, ret, caller,
                   envVars, stdout, ran, failedAt, fileVars>>

(***************************************************************************)
(* Characters.                                                             *)
(***************************************************************************)
LowerLetters == <<"a","b","c","d","e","f","g","h","i","j","k","l","m",
                  "n","o","p","q","r","s","t","u","v","w","x","y","z">>
UpperLetters == <<"A","B","C","D","E","F","G","H","I","J","K","L","M",
                  "N","O","P","Q","R","S","T","U","V","W","X","Y","Z">>
Digits == {"0","1","2","3","4","5","6","7","8","9"}

IsAsciiLetter(c) == c \in Range(LowerLetters) \cup Range(UpperLetters)

\* unicode.ToLower / strings.ToLower on the characters of the model
ToLower(c) ==
    IF c \in Range(UpperLetters) THEN LowerLetters[FirstIndex(UpperLetters, c)] ELSE c

ToLowerStr(s) == [i \in 1..Len(s) |-> ToLower(s[i])]

\* strings.Index and strings.LastIndex for one character, 1-based, 0 when absent
Index(s, c) == FirstIndex(s, c)

LastIndex(s, c) ==
    IF \E i \in 1..Len(s) : s[i] = c
    THEN CHOOSE i \in 1..Len(s) : s[i] = c /\ \A j \in (i+1)..Len(s) : s[j] # c
    ELSE 0

HasPrefix(s, p) == Len(s) >= Len(p) /\ SubSeq(s, 1, Len(p)) = p

(***************************************************************************)
(* net/url.Parse, as line 535 uses it: whether it fails, and the scheme.   *)
(* The model follows url.Parse on names made of ASCII letters, digits and  *)
(* the characters : / . - + space and tab (a control character): the       *)
(* fragment, query, userinfo, IPv6 and escape rules need characters that   *)
(* no name of the model holds.                                             *)
(***************************************************************************)
CtlChars == {"\t"}

\* getScheme: [scheme, rest, err]
RECURSIVE GetScheme(_, _)
GetScheme(rawURL, i) ==
    IF i > Len(rawURL) THEN [scheme |-> <<>>, rest |-> rawURL, err |-> FALSE]
    ELSE LET c == rawURL[i] IN
         IF IsAsciiLetter(c) THEN GetScheme(rawURL, i + 1)
         ELSE IF c \in Digits \cup {"+", "-", "."}
              THEN IF i = 1 THEN [scheme |-> <<>>, rest |-> rawURL, err |-> FALSE]
                   ELSE GetScheme(rawURL, i + 1)
         ELSE IF c = ":"
              THEN IF i = 1 THEN [scheme |-> <<>>, rest |-> <<>>, err |-> TRUE]
                   ELSE [scheme |-> SubSeq(rawURL, 1, i - 1),
                         rest |-> SubSeq(rawURL, i + 1, Len(rawURL)), err |-> FALSE]
         ELSE [scheme |-> <<>>, rest |-> rawURL, err |-> FALSE]

\* validOptionalPort: empty, or a colon followed by digits only
ValidOptionalPort(port) ==
    port = <<>> \/ (port[1] = ":" /\ \A i \in 2..Len(port) : port[i] \in Digits)

\* parseHost without brackets: the port after the last colon must be digits,
\* and the host must hold no character that needs escaping
ParseHostFails(host) ==
    \/ LastIndex(host, ":") # 0
         /\ ~ValidOptionalPort(SubSeq(host, LastIndex(host, ":"), Len(host)))
    \/ \E i \in 1..Len(host) :
         ~(IsAsciiLetter(host[i]) \/ host[i] \in Digits \cup {"-", ".", ":", "+"})

\* url.Parse: [err, Scheme, Opaque, Host, Path]
UrlParse(rawURL) ==
    LET bad == [err |-> TRUE, Scheme |-> <<>>, Opaque |-> <<>>, Host |-> <<>>, Path |-> <<>>]
        gs  == GetScheme(rawURL, 1)
        scheme == ToLowerStr(gs.scheme)
        rest   == gs.rest
        slash  == Index(rest, "/")
        segment == IF slash = 0 THEN rest ELSE SubSeq(rest, 1, slash - 1)
        afterSlashes == SubSeq(rest, 3, Len(rest))
        cut       == Index(afterSlashes, "/")
        authority == IF cut = 0 THEN afterSlashes ELSE SubSeq(afterSlashes, 1, cut - 1)
        path      == IF cut = 0 THEN <<>> ELSE SubSeq(afterSlashes, cut, Len(afterSlashes))
    IN  IF \E i \in 1..Len(rawURL) : rawURL[i] \in CtlChars THEN bad
        ELSE IF gs.err THEN bad
        ELSE IF ~HasPrefix(rest, <<"/">>) /\ scheme # <<>>
             THEN [err |-> FALSE, Scheme |-> scheme, Opaque |-> rest, Host |-> <<>>, Path |-> <<>>]
        ELSE IF ~HasPrefix(rest, <<"/">>) /\ Index(segment, ":") # 0 THEN bad
        ELSE IF HasPrefix(rest, <<"/", "/">>) /\ (scheme # <<>> \/ ~HasPrefix(rest, <<"/", "/", "/">>))
             THEN IF ParseHostFails(authority) THEN bad
                  ELSE [err |-> FALSE, Scheme |-> scheme, Opaque |-> <<>>,
                        Host |-> authority, Path |-> path]
        ELSE [err |-> FALSE, Scheme |-> scheme, Opaque |-> <<>>, Host |-> <<>>, Path |-> rest]

(***************************************************************************)
(* time.Time: a civil date and the seconds of its day.                     *)
(***************************************************************************)
IsLeap(y) == (y % 4 = 0 /\ y % 100 # 0) \/ y % 400 = 0

DaysIn(m, y) ==
    IF m = 2 THEN (IF IsLeap(y) THEN 29 ELSE 28)
    ELSE IF m \in {4, 6, 9, 11} THEN 30 ELSE 31

\* time.Date's normalisation of a day that lies outside its month
RECURSIVE NormaliseDay(_, _, _)
NormaliseDay(y, m, d) ==
    IF d > DaysIn(m, y)
    THEN IF m = 12 THEN NormaliseDay(y + 1, 1, d - DaysIn(m, y))
         ELSE NormaliseDay(y, m + 1, d - DaysIn(m, y))
    ELSE IF d < 1
    THEN IF m = 1 THEN NormaliseDay(y - 1, 12, d + DaysIn(12, y - 1))
         ELSE NormaliseDay(y, m - 1, d + DaysIn(m - 1, y))
    ELSE [year |-> y, month |-> m, day |-> d]

\* t.AddDate(0, 0, days)
AddDate_Months(t, days) ==
    LET m == t.month + days
        n == [year |-> t.year + (m - 1) \div 12, month |-> ((m - 1) % 12) + 1, day |-> t.day]
    IN  [year |-> n.year, month |-> n.month, day |-> n.day, sec |-> t.sec]

AddDate(t, days) ==
    LET n == NormaliseDay(t.year, t.month, t.day + days)
    IN  [year |-> n.year, month |-> n.month, day |-> n.day, sec |-> t.sec]

(***************************************************************************)
(* encoding/asn1.Marshal, for the values signCSRToPKCS7 hands to it.       *)
(***************************************************************************)
ClassUniversal == 0
ClassContextSpecific == 2
TagInteger == 2
TagOID == 6
TagSequence == 16
TagSet == 17

\* the bytes of n in base 256, most significant first (n > 0)
RECURSIVE Base256(_)
Base256(n) == IF n < 256 THEN <<n>> ELSE Append(Base256(n \div 256), n % 256)

\* the bytes of n in base 128, most significant first, every byte but the
\* last with its top bit set
RECURSIVE Base128(_, _)
Base128(n, last) ==
    LET b == (n % 128) + (IF last THEN 0 ELSE 128)
    IN  IF n < 128 THEN <<b>> ELSE Append(Base128(n \div 128, FALSE), b)

\* appendTagAndLength: the identifier byte, then the length in short or long form
TagAndLength(class, tag, length, isCompound) ==
    <<class * 64 + (IF isCompound THEN 32 ELSE 0) + tag>>
      \o (IF length < 128 THEN <<length>>
          ELSE <<128 + Len(Base256(length))>> \o Base256(length))

Tlv(class, tag, isCompound, body) == TagAndLength(class, tag, Len(body), isCompound) \o body

\* a Go int field, for the values 0..32767
MarshalInt(n) == Tlv(ClassUniversal, TagInteger, FALSE,
                     IF n < 128 THEN <<n>> ELSE <<n \div 256, n % 256>>)

RECURSIVE OIDArcs(_, _)
OIDArcs(oid, i) ==
    IF i > Len(oid) THEN <<>> ELSE Base128(oid[i], TRUE) \o OIDArcs(oid, i + 1)

\* an asn1.ObjectIdentifier
MarshalOID(oid) == Tlv(ClassUniversal, TagOID, FALSE,
                       Base128(oid[1] * 40 + oid[2], TRUE) \o OIDArcs(oid, 3))

\* asn1.RawValue
RawValue(class, tag, isCompound, bytes, fullBytes) ==
    [Class |-> class, Tag |-> tag, IsCompound |-> isCompound, Bytes |-> bytes,
     FullBytes |-> fullBytes]

ZeroRawValue == RawValue(0, 0, FALSE, <<>>, <<>>)

\* makeField on a RawValue: an optional field that holds the zero value is left
\* out; FullBytes, when set, are written as they are, in place of the class,
\* the tag and the bytes
MarshalRawValue(rv, optional) ==
    IF optional /\ rv = ZeroRawValue THEN <<>>
    ELSE IF rv.FullBytes # <<>> THEN rv.FullBytes
    ELSE Tlv(rv.Class, rv.Tag, rv.IsCompound, rv.Bytes)

RECURSIVE MarshalElements(_, _)
MarshalElements(elems, i) ==
    IF i > Len(elems) THEN <<>>
    ELSE MarshalRawValue(elems[i], FALSE) \o MarshalElements(elems, i + 1)

\* a Go slice whose type name does not end in SET: getUniversalType gives it
\* the tag of a SEQUENCE.  asn1.Marshal([]interface{}{}) and
\* asn1.Marshal([]asn1.RawValue{...}) are both of this kind
MarshalSlice(elems) == Tlv(ClassUniversal, TagSequence, TRUE, MarshalElements(elems, 1))

\* the contentInfo struct of lines 560-563
MarshalContentInfo(ci) ==
    Tlv(ClassUniversal, TagSequence, TRUE,
        MarshalOID(ci.ContentType) \o MarshalRawValue(ci.Content, TRUE))

\* the signedData struct of lines 566-573
MarshalSignedData(sd) ==
    Tlv(ClassUniversal, TagSequence, TRUE,
        MarshalInt(sd.Version)
          \o MarshalRawValue(sd.DigestAlgorithms, FALSE)
          \o MarshalContentInfo(sd.ContentInfo)
          \o MarshalRawValue(sd.Certificates, TRUE)
          \o MarshalRawValue(sd.CRLs, TRUE)
          \o MarshalRawValue(sd.SignerInfos, FALSE))

oidSignedData == <<1, 2, 840, 113549, 1, 7, 2>>
oidData       == <<1, 2, 840, 113549, 1, 7, 1>>

(***************************************************************************)
(* base64.StdEncoding.EncodeToString                                       *)
(***************************************************************************)
Base64Alphabet ==
    UpperLetters \o LowerLetters \o <<"0","1","2","3","4","5","6","7","8","9","+","/">>

RECURSIVE Base64Encode(_)
Base64Encode(bytes) ==
    LET c(n) == Base64Alphabet[n + 1] IN
    IF Len(bytes) = 0 THEN <<>>
    ELSE IF Len(bytes) = 1
         THEN <<c(bytes[1] \div 4), c((bytes[1] % 4) * 16), "=", "=">>
    ELSE IF Len(bytes) = 2
         THEN <<c(bytes[1] \div 4), c((bytes[1] % 4) * 16 + bytes[2] \div 16),
                c((bytes[2] % 16) * 4), "=">>
    ELSE <<c(bytes[1] \div 4), c((bytes[1] % 4) * 16 + bytes[2] \div 16),
           c((bytes[2] % 16) * 4 + bytes[3] \div 64), c(bytes[3] % 64)>>
           \o Base64Encode(SubSeq(bytes, 4, Len(bytes)))

(***************************************************************************)
(* signCSRToPKCS7, lines 496-631, one action per statement that calls out. *)
(* A library call that returns an error the code looks at may fail: the    *)
(* environment decides.  ran and failedAt record what happened.            *)
(***************************************************************************)
SerialNumbers == {1, 200}

KeyUsageDigitalSignature == "digitalSignature"
KeyUsageContentCommitment == "contentCommitment"

\* the steps in the order of the code
StepOrder == <<"decode", "parse", "serial", "now", "addDate", "template", "create",
               "parseCert", "emptySet", "certSet", "signedData", "pkcs7", "base64">>

\* the message of the return statement that follows a failed step
ErrorOf(step) ==
    CASE step = "decode"     -> "failed to decode CSR PEM"
      [] step = "parse"      -> "failed to parse CSR"
      [] step = "serial"     -> "failed to generate serial number"
      [] step = "create"     -> "failed to create certificate"
      [] step = "parseCert"  -> "failed to parse certificate"
      [] step = "certSet"    -> "failed to marshal certificate set"
      [] step = "signedData" -> "failed to marshal signed data"
      [] step = "pkcs7"      -> "failed to marshal PKCS#7"
      [] OTHER               -> "no error return"

\* a step begins: it is recorded in ran, and in failedAt when its call failed
Begin(step, callFailed) ==
    /\ pc = step
    /\ ran' = Append(ran, step)
    /\ failedAt' = IF callFailed THEN failedAt \cup {step} ELSE failedAt

\* return "", fmt.Errorf(...)
ReturnError(step) ==
    /\ ret' = [text |-> <<>>, err |-> ErrorOf(step)]
    /\ pc' = "returned"

\* line 503: if block == nil
BlockIsNil_Unchecked(b) == FALSE

BlockIsNil(b) == b.isNil

\* lines 502-505
DecodePEM ==
    LET b == PemDecode(csrPEM) IN
    /\ Begin("decode", b.isNil)
    /\ block' = b
    /\ IF BlockIsNil(b) THEN ReturnError("decode")
       ELSE pc' = "parse" /\ UNCHANGED ret
    /\ UNCHANGED <<keyVars, signArgs, csr, serialNumber, notBefore, notAfter, template, cert,
                   emptySet, certSet, signedDataBytes, pkcs7DER, caller, envVars, stdout, fileVars>>

\* lines 507-510; block.Bytes of a nil block is a nil pointer dereference
ParseCSR ==
    LET parsed == ParseCertificateRequest(block.Bytes) IN
    /\ Begin("parse", block.isNil \/ parsed.err)
    /\ IF block.isNil THEN pc' = "panic" /\ UNCHANGED <<csr, ret>>
       ELSE IF parsed.err THEN ReturnError("parse") /\ UNCHANGED csr
       ELSE csr' = parsed.CSR /\ pc' = "serial" /\ UNCHANGED ret
    /\ UNCHANGED <<keyVars, signArgs, block, serialNumber, notBefore, notAfter, template, cert,
                   emptySet, certSet, signedDataBytes, pkcs7DER, caller, envVars, stdout, fileVars>>

\* line 514: if err != nil
SerialErr_Ignored(failed) == FALSE

SerialErr(failed) == failed

\* lines 513-516
GenerateSerial ==
    \E failed \in BOOLEAN, n \in SerialNumbers :
        /\ Begin("serial", failed)
        /\ IF SerialErr(failed) THEN ReturnError("serial") /\ UNCHANGED serialNumber
           ELSE serialNumber' = (IF failed THEN 0 ELSE n) /\ pc' = "now" /\ UNCHANGED ret
        /\ UNCHANGED <<keyVars, signArgs, block, csr, notBefore, notAfter, template, cert,
                       emptySet, certSet, signedDataBytes, pkcs7DER, caller, envVars, stdout,
                       fileVars>>

\* line 519: notBefore := time.Now()
ReadClock ==
    /\ Begin("now", FALSE)
    /\ notBefore' = clock
    /\ pc' = "addDate"
    /\ UNCHANGED <<keyVars, signArgs, block, csr, serialNumber, notAfter, template, cert,
                   emptySet, certSet, signedDataBytes, pkcs7DER, ret, caller, envVars, stdout,
                   fileVars>>

\* line 520: notAfter := notBefore.AddDate(0, 0, validityDays)
SetNotAfter ==
    /\ Begin("addDate", FALSE)
    /\ notAfter' = AddDate(notBefore, validityDays)
    /\ pc' = "template"
    /\ UNCHANGED <<keyVars, signArgs, block, csr, serialNumber, notBefore, template, cert,
                   emptySet, certSet, signedDataBytes, pkcs7DER, ret, caller, envVars, stdout,
                   fileVars>>

\* line 535: err == nil && u.Scheme != ""
IsURI_SchemeOnly(u) == GetScheme(u, 1).scheme # <<>>

IsURI(u) == ~UrlParse(u).err /\ UrlParse(u).Scheme # <<>>

\* lines 534-538: the loop over csr.DNSNames, from index i
RECURSIVE AddURIs(_, _, _)
AddURIs(dnsNames, i, uris) ==
    IF i > Len(dnsNames) THEN uris
    ELSE AddURIs(dnsNames, i + 1,
                 IF IsURI(dnsNames[i]) THEN Append(uris, UrlParse(dnsNames[i])) ELSE uris)

\* lines 523-538
BuildTemplate ==
    /\ Begin("template", FALSE)
    /\ template' = [SerialNumber |-> serialNumber,
                    Subject |-> csr.Subject,
                    NotBefore |-> notBefore,
                    NotAfter |-> notAfter,
                    KeyUsage |-> {KeyUsageDigitalSignature, KeyUsageContentCommitment},
                    BasicConstraintsValid |-> TRUE,
                    DNSNames |-> csr.DNSNames,
                    URIs |-> AddURIs(csr.DNSNames, 1, <<>>)]
    /\ pc' = "create"
    /\ UNCHANGED <<keyVars, signArgs, block, csr, serialNumber, notBefore, notAfter, cert,
                   emptySet, certSet, signedDataBytes, pkcs7DER, ret, caller, envVars, stdout,
                   fileVars>>

\* x509.CreateCertificate(rand, tmpl, parent, pub, priv): the certificate of
\* tmpl's subject and validity, issued by parent's subject, signed with priv
X509CreateCertificate(tmpl, parent, pub, priv) ==
    [certBytes |-> Tlv(ClassUniversal, TagSequence, TRUE, MarshalInt(tmpl.SerialNumber)),
     Subject |-> tmpl.Subject, Issuer |-> parent.Subject,
     PublicKey |-> pub, SignedBy |-> priv,
     NotBefore |-> tmpl.NotBefore, NotAfter |-> tmpl.NotAfter]

\* lines 541-550
CreateCertificate ==
    \E failed \in BOOLEAN :
        /\ Begin("create", failed)
        /\ IF failed THEN ReturnError("create") /\ UNCHANGED cert
           ELSE /\ cert' = X509CreateCertificate(template, template,
                                                 csr.PublicKey, signingPrivateKey)
                /\ pc' = "parseCert"
                /\ UNCHANGED ret
        /\ UNCHANGED <<keyVars, signArgs, block, csr, serialNumber, notBefore, notAfter, template,
                       emptySet, certSet, signedDataBytes, pkcs7DER, caller, envVars, stdout,
                       fileVars>>

\* lines 553-556
ParseCertificate ==
    \E failed \in BOOLEAN :
        /\ Begin("parseCert", failed)
        /\ IF failed THEN ReturnError("parseCert") ELSE pc' = "emptySet" /\ UNCHANGED ret
        /\ UNCHANGED <<keyVars, signArgs, signLocals, caller, envVars, stdout, fileVars>>

\* line 580: emptySet, _ := asn1.Marshal([]interface{}{}); marshalling the
\* empty slice cannot fail
MarshalEmptySet ==
    /\ Begin("emptySet", FALSE)
    /\ emptySet' = MarshalSlice(<<>>)
    /\ pc' = "certSet"
    /\ UNCHANGED <<keyVars, signArgs, block, csr, serialNumber, notBefore, notAfter, template,
                   cert, certSet, signedDataBytes, pkcs7DER, ret, caller, envVars, stdout,
                   fileVars>>

\* lines 588-593
MarshalCertSet ==
    \E failed \in BOOLEAN :
        /\ Begin("certSet", failed)
        /\ IF failed THEN ReturnError("certSet") /\ UNCHANGED certSet
           ELSE /\ certSet' = MarshalSlice(<<RawValue(0, 0, FALSE, <<>>, cert.certBytes)>>)
                /\ pc' = "signedData"
                /\ UNCHANGED ret
        /\ UNCHANGED <<keyVars, signArgs, block, csr, serialNumber, notBefore, notAfter, template,
                       cert, emptySet, signedDataBytes, pkcs7DER, caller, envVars, stdout,
                       fileVars>>

\* lines 583-585 and 596-602: the signedData value
SignedDataValue ==
    [Version          |-> 1,
     DigestAlgorithms |-> RawValue(0, 0, FALSE, <<>>, emptySet),
     ContentInfo      |-> [ContentType |-> oidData, Content |-> ZeroRawValue],
     Certificates     |-> RawValue(ClassContextSpecific, 0, TRUE, <<>>, certSet),
     CRLs             |-> ZeroRawValue,
     SignerInfos      |-> RawValue(0, 0, FALSE, <<>>, emptySet)]

\* lines 596-608
MarshalSD ==
    \E failed \in BOOLEAN :
        /\ Begin("signedData", failed)
        /\ IF failed THEN ReturnError("signedData") /\ UNCHANGED signedDataBytes
           ELSE /\ signedDataBytes' = MarshalSignedData(SignedDataValue)
                /\ pc' = "pkcs7"
                /\ UNCHANGED ret
        /\ UNCHANGED <<keyVars, signArgs, block, csr, serialNumber, notBefore, notAfter, template,
                       cert, emptySet, certSet, pkcs7DER, caller, envVars, stdout, fileVars>>

\* lines 611-619: the outer content info
OuterContentInfo ==
    [ContentType |-> oidSignedData,
     Content     |-> RawValue(ClassContextSpecific, 0, TRUE, signedDataBytes, <<>>)]

\* lines 611-625
MarshalPKCS7 ==
    \E failed \in BOOLEAN :
        /\ Begin("pkcs7", failed)
        /\ IF failed THEN ReturnError("pkcs7") /\ UNCHANGED pkcs7DER
           ELSE /\ pkcs7DER' = MarshalContentInfo(OuterContentInfo)
                /\ pc' = "base64"
                /\ UNCHANGED ret
        /\ UNCHANGED <<keyVars, signArgs, block, csr, serialNumber, notBefore, notAfter, template,
                       cert, emptySet, certSet, signedDataBytes, caller, envVars, stdout,
                       fileVars>>

\* lines 628-630
EncodeAndReturn ==
    /\ Begin("base64", FALSE)
    /\ ret' = [text |-> Base64Encode(pkcs7DER), err |-> ""]
    /\ pc' = "returned"
    /\ UNCHANGED <<keyVars, signArgs, signLocals, caller, envVars, stdout, fileVars>>

\* the wall clock advances; only lines 519-520 can tell
Tick ==
    /\ pc \in {"now", "addDate"}
    /\ ticks < MaxTick
    /\ ticks' = ticks + 1
    /\ clock' = [clock EXCEPT !.sec = @ + 1]
    /\ UNCHANGED <<keyVars, signArgs, signLocals, ret, pc, caller, stdout, ran, failedAt,
                   fileVars>>

SignStep ==
    \/ DecodePEM
    \/ ParseCSR
    \/ GenerateSerial
    \/ ReadClock
    \/ SetNotAfter
    \/ BuildTemplate
    \/ CreateCertificate
    \/ ParseCertificate
    \/ MarshalEmptySet
    \/ MarshalCertSet
    \/ MarshalSD
    \/ MarshalPKCS7
    \/ EncodeAndReturn

(***************************************************************************)
(* The states in which a function's variables are idle.                    *)
(***************************************************************************)
NoTime     == [year |-> 0, month |-> 0, day |-> 0, sec |-> 0]
NoTemplate == [SerialNumber |-> 0, Subject |-> NoSubject, NotBefore |-> NoTime,
               NotAfter |-> NoTime, KeyUsage |-> {}, BasicConstraintsValid |-> FALSE,
               DNSNames |-> <<>>, URIs |-> <<>>]
NoCert     == [certBytes |-> <<>>, Subject |-> NoSubject, Issuer |-> NoSubject,
               PublicKey |-> Pub("none"), SignedBy |-> "none",
               NotBefore |-> NoTime, NotAfter |-> NoTime]

IdleSignLocals ==
    /\ block = NilBlock
    /\ csr = NoCSR.CSR
    /\ serialNumber = 0
    /\ notBefore = NoTime
    /\ notAfter = NoTime
    /\ template = NoTemplate
    /\ cert = NoCert
    /\ emptySet = <<>>
    /\ certSet = <<>>
    /\ signedDataBytes = <<>>
    /\ pkcs7DER = <<>>
    /\ ret = NoRet
    /\ ran = <<>>
    /\ failedAt = {}

IdleSign ==
    /\ csrPEM = <<>>
    /\ signingPrivateKey = "none"
    /\ validityDays = 0
    /\ IdleSignLocals
    /\ clock = NoTime
    /\ ticks = 0

IdleKey ==
    /\ keyPair = NoKey
    /\ keyErr = "unset"
    /\ commonName = <<>>
    /\ altNames = NilSlice
    /\ csrResult = NoCSR

IdleFiles ==
    /\ baseName = <<>>
    /\ cleaned = [text |-> <<>>, err |-> FALSE]
    /\ dir = {}
    /\ extension = <<>>
    /\ entries = <<>>
    /\ idx = 0
    /\ renamedCount = 0
    /\ reported = -1
    /\ renames = <<>>

(***************************************************************************)
(* SpecSign: signCSRToPKCS7 on the CSR texts, keys and validity periods of *)
(* the bounds.                                                             *)
(***************************************************************************)
\* the validity period CertificateGeneration asks for (line 666)
DefaultValidityDays == 365

\* DNS names of the requests: no scheme; a scheme and an opaque part; a
\* leading colon (url.Parse fails); a colon in the first path segment of a
\* name without scheme (fails); a scheme and a port that is no number
\* (fails); a scheme and a host
DnsPool == { <<"a">>,
             <<"a", ":", "b">>,
             <<":", "a">>,
             <<"1", ":", "a">>,
             <<"A", ":", "/", "/", "b", ":", "c">>,
             <<"a", ":", "/", "/", "b">> }

\* the requests: every DNS-name list over DnsPool up to MaxDns
CsrDers == { Der("csr", [CommonName |-> <<"a">>], dns, Pub("k1")) :
               dns \in SeqsUpTo(DnsPool, MaxDns) }

\* the lines of the texts that are not a well-formed request
PemLines == { BeginLine(t) : t \in {"CERTIFICATE REQUEST", "PRIVATE KEY"} }
       \cup { EndLine(t) : t \in {"CERTIFICATE REQUEST", "PRIVATE KEY"} }
       \cup { DataLine(d) : d \in {JunkDer, MarshalPKCS8PrivateKey("k1"),
                                   Der("csr", [CommonName |-> <<"a">>], <<>>, Pub("k1"))} }
       \cup { OtherLine }

\* the CSR texts: the PEM of every request, and every text of up to
\* MaxPemLines lines (the empty text among them)
CsrTexts == { PemEncodeToMemory("CERTIFICATE REQUEST", d) : d \in CsrDers }
       \cup SeqsUpTo(PemLines, MaxPemLines)

ClockStarts == { [year |-> 2024, month |-> 2, day |-> 28, sec |-> 0],
                 [year |-> 2025, month |-> 12, day |-> 31, sec |-> 0],
                 [year |-> 2026, month |-> 11, day |-> 4, sec |-> 0] }

\* either any CSR text with one key, validity period and clock, or one
\* well-formed request with any key, validity period and clock
InitSign ==
    /\ pc = "decode"
    /\ caller = "sign"
    /\ \/ /\ csrPEM \in CsrTexts
          /\ signingPrivateKey = "k1"
          /\ validityDays = DefaultValidityDays
          /\ clock = [year |-> 2026, month |-> 11, day |-> 4, sec |-> 0]
       \/ /\ csrPEM = PemEncodeToMemory("CERTIFICATE REQUEST",
                         Der("csr", [CommonName |-> <<"a">>],
                             << <<"a">>, <<"a", ":", "b">> >>, Pub("k1")))
          /\ signingPrivateKey \in Keys
          /\ validityDays \in (0..MaxDays) \cup {DefaultValidityDays}
          /\ clock \in ClockStarts
    /\ ticks = 0
    /\ IdleSignLocals
    /\ IdleKey
    /\ stdout = <<>>
    /\ IdleFiles

NextSign == SignStep \/ Tick

SpecSign == InitSign /\ [][NextSign]_vars

(***************************************************************************)
(* SpecCSR: createCSR on every commonName and altNames of the bounds.      *)
(***************************************************************************)
InitCSR ==
    /\ pc = "createCSR"
    /\ caller = "csr"
    /\ keyPair \in { [PrivateKey |-> k,
                      PrivateKeyPEM |-> PemEncodeToMemory("PRIVATE KEY", MarshalPKCS8PrivateKey(k))]
                     : k \in Keys }
    /\ keyErr = ""
    /\ commonName \in CsrNames
    /\ altNames \in {NilSlice} \cup { Slice(s) : s \in SeqsUpTo(CsrNames, MaxAlt) }
    /\ csrResult = NoCSR
    /\ stdout = <<>>
    /\ IdleSign
    /\ IdleFiles

NextCSR == CreateCSR

SpecCSR == InitCSR /\ [][NextCSR]_vars

DefaultCommonName ==
    <<"U","S","A","M","Z","S","0","0","0","0","0","0","0","0","0","0","0",
    "0","0","0","0","0","0","0","0","0","0","0","1","3","7","2","0","7",
    "0","2","0","1","E">>

\* line 651
DefaultAltName ==
    <<"h","t","t","p","s",":","/","/","w","w","w",".","p","o","w","e","r",
    "f","l","e","x",".","c","o","m">>

Printed(kind, label, text, cause) ==
    [kind |-> kind, label |-> label, text |-> text, cause |-> cause]

\* generateECDSAKeyPair, lines 385-408: [err, keyPair]
GenerateECDSAKeyPair(k, outcome) ==
    IF outcome = "generate" THEN [err |-> "failed to generate key", keyPair |-> NoKey]
    ELSE IF outcome = "marshal" THEN [err |-> "failed to marshal private key", keyPair |-> NoKey]
    ELSE [err |-> "",
          keyPair |-> [PrivateKey |-> k,
                       PrivateKeyPEM |-> PemEncodeToMemory("PRIVATE KEY",
                                                           MarshalPKCS8PrivateKey(k))]]

\* lines 635-657: the key pair, its prints, and the call of createCSR
KeyStage ==
    /\ pc = "genKey"
    /\ \E k \in Keys, outcome \in {"ok", "generate", "marshal"} :
          LET r == GenerateECDSAKeyPair(k, outcome) IN
          /\ keyPair' = r.keyPair
          /\ keyErr' = r.err
          /\ IF r.err # ""
             THEN /\ stdout' = Append(stdout, Printed("error", "Error generating key pair",
                                                      <<>>, r.err))
                  /\ pc' = "exit"
                  /\ UNCHANGED <<commonName, altNames>>
             ELSE /\ stdout' = stdout \o
                        << Printed("info", "Generated ECDSA key pair with P-256 curve", <<>>, ""),
                           Printed("block", "Private key PEM", r.keyPair.PrivateKeyPEM, "") >>
                  /\ commonName' = DefaultCommonName
                  /\ altNames' = Slice(<<DefaultAltName>>)
                  /\ pc' = "createCSR"
    /\ UNCHANGED <<csrResult, signArgs, signLocals, ret, caller, envVars, ran, failedAt,
                   fileVars>>

\* line 658: if err != nil
CsrErr_Ignored(res) == FALSE

CsrErr(res) == res.err # ""

\* lines 658-666: createCSR returned; its print, and the call of signCSRToPKCS7
CsrStage ==
    /\ pc = "csrReturned"
    /\ caller = "gen"
    /\ IF CsrErr(csrResult)
       THEN /\ stdout' = Append(stdout, Printed("error", "Error creating CSR", <<>>,
                                                csrResult.err))
            /\ pc' = "exit"
            /\ UNCHANGED signArgs
       ELSE /\ stdout' = Append(stdout, Printed("block", "CSR PEM", csrResult.CSRPEM, ""))
            /\ csrPEM' = csrResult.CSRPEM
            /\ signingPrivateKey' = keyPair.PrivateKey
            /\ validityDays' = DefaultValidityDays
            /\ pc' = "decode"
    /\ UNCHANGED <<keyVars, signLocals, ret, caller, envVars, ran, failedAt, fileVars>>

\* lines 667-672: signCSRToPKCS7 returned; its print
Pkcs7Stage ==
    /\ pc = "returned"
    /\ caller = "gen"
    /\ stdout' = Append(stdout,
                        IF ret.err # ""
                        THEN Printed("error", "Error signing CSR", <<>>, ret.err)
                        ELSE Printed("block", "PKCS#7 Certificate (Base64)", ret.text, ""))
    /\ pc' = "exit"
    /\ UNCHANGED <<keyVars, signArgs, signLocals, ret, caller, envVars, ran, failedAt,
                   fileVars>>

InitGen ==
    /\ pc = "genKey"
    /\ caller = "gen"
    /\ IdleKey
    /\ csrPEM = <<>>
    /\ signingPrivateKey = "none"
    /\ validityDays = 0
    /\ IdleSignLocals
    /\ clock \in ClockStarts
    /\ ticks = 0
    /\ stdout = <<>>
    /\ IdleFiles

NextGen == KeyStage \/ CreateCSR \/ CsrStage \/ SignStep \/ Tick \/ Pkcs7Stage

SpecGen == InitGen /\ [][NextGen]_vars

(***************************************************************************)
(* cleanFileName, lines 99-136.  The names of the model are made of ASCII  *)
(* characters, on which unicode.IsLetter, IsDigit and IsSpace are the      *)
(* three tests below.                                                      *)
(***************************************************************************)
IsLetter(r) == IsAsciiLetter(r)
IsDigit(r)  == r \in Digits
IsSpace(r)  == r \in {" ", "\t"}

\* lines 100-102: the builder and the two flags
CleanStart == [result |-> <<>>, lastWasSpace |-> FALSE, lastWasLetter |-> FALSE]

\* line 111: if lastWasLetter
DigitKept_Always(st) == TRUE

DigitKept(st) == st.lastWasLetter

\* lines 105-124: one iteration of the loop
CleanRune(st, r) ==
    IF IsLetter(r)
    THEN [result |-> Append(st.result, ToLower(r)),
          lastWasSpace |-> FALSE, lastWasLetter |-> TRUE]
    ELSE IF IsDigit(r)
    THEN IF DigitKept(st)
         THEN [result |-> Append(st.result, r),
               lastWasSpace |-> FALSE, lastWasLetter |-> FALSE]
         ELSE st
    ELSE IF IsSpace(r)
    THEN IF ~st.lastWasSpace /\ Len(st.result) > 0
         THEN [result |-> Append(st.result, "_"),
               lastWasSpace |-> TRUE, lastWasLetter |-> FALSE]
         ELSE st
    ELSE [st EXCEPT !.lastWasLetter = FALSE]

RECURSIVE CleanLoop(_, _, _)
CleanLoop(st, name, i) ==
    IF i > Len(name) THEN st ELSE CleanLoop(CleanRune(st, name[i]), name, i + 1)

\* strings.Trim(s, cutset), line 128
RECURSIVE TrimLeft(_, _)
TrimLeft(s, cutset) ==
    IF s # <<>> /\ Head(s) \in cutset THEN TrimLeft(Tail(s), cutset) ELSE s

RECURSIVE TrimRight(_, _)
TrimRight(s, cutset) ==
    IF s # <<>> /\ s[Len(s)] \in cutset
    THEN TrimRight(SubSeq(s, 1, Len(s) - 1), cutset)
    ELSE s

Trim(s, cutset) == TrimRight(TrimLeft(s, cutset), cutset)

cleanFileName(name) ==
    LET cleanedName == Trim(CleanLoop(CleanStart, name, 1).result, {"_"}) IN
    IF cleanedName = <<>>
    THEN [text |-> <<>>, err |-> TRUE]
    ELSE [text |-> cleanedName, err |-> FALSE]

\* one call of cleanFileName
CleanName ==
    /\ pc = "clean"
    /\ cleaned' = cleanFileName(baseName)
    /\ pc' = "cleaned"
    /\ UNCHANGED <<keyVars, signArgs, signLocals, ret, caller, envVars, stdout, ran, failedAt,
                   baseName, dir, extension, entries, idx, renamedCount, reported, renames>>

(***************************************************************************)
(* SpecClean: cleanFileName on every name of at most MaxNameLen characters *)
(* over a lower-case letter, an upper-case letter, a digit, the space, the *)
(* tab and the underscore (a character of none of the three classes).      *)
(***************************************************************************)
CleanAlphabet == {"a", "B", "1", " ", "\t", "_"}

InitClean ==
    /\ pc = "clean"
    /\ caller = "clean"
    /\ baseName \in SeqsUpTo(CleanAlphabet, MaxNameLen)
    /\ cleaned = [text |-> <<>>, err |-> FALSE]
    /\ dir = {}
    /\ extension = <<>>
    /\ entries = <<>>
    /\ idx = 0
    /\ renamedCount = 0
    /\ reported = -1
    /\ renames = <<>>
    /\ IdleKey
    /\ IdleSign
    /\ stdout = <<>>

NextClean == CleanName

SpecClean == InitClean /\ [][NextClean]_vars

(***************************************************************************)
(* UpdateAndRenameFilesInDirectory, lines 28-97.  The directory is a set   *)
(* of entries [name, kind]: a regular file, a subdirectory, or a symbolic  *)
(* link whose target does not exist ("link"), which os.ReadDir lists as a  *)
(* non-directory and os.Stat, following it, reports as missing.            *)
(***************************************************************************)
\* the byte order of the characters of the model
CharOrder == <<"\t", " ", "+", "-", ".", "/",
               "0","1","2","3","4","5","6","7","8","9", ":",
               "A","B","C","D","E","F","G","H","I","J","K","L","M",
               "N","O","P","Q","R","S","T","U","V","W","X","Y","Z", "_",
               "a","b","c","d","e","f","g","h","i","j","k","l","m",
               "n","o","p","q","r","s","t","u","v","w","x","y","z", "~">>

Ord(c) == FirstIndex(CharOrder, c)

\* Go's string comparison s < t
RECURSIVE StringLess(_, _)
StringLess(s, t) ==
    IF t = <<>> THEN FALSE
    ELSE IF s = <<>> THEN TRUE
    ELSE IF Head(s) # Head(t) THEN Ord(Head(s)) < Ord(Head(t))
    ELSE StringLess(Tail(s), Tail(t))

\* os.ReadDir, line 48: the entries sorted by filename
RECURSIVE ReadDir(_)
ReadDir(d) ==
    IF d = {} THEN <<>>
    ELSE LET first == CHOOSE e \in d : \A f \in d \ {e} : StringLess(e.name, f.name)
         IN <<first>> \o ReadDir(d \ {first})

\* filepath.Ext on a name without separators: from the last dot on
Ext(path) ==
    IF LastIndex(path, ".") = 0 THEN <<>>
    ELSE SubSeq(path, LastIndex(path, "."), Len(path))

HasSuffix(s, suffix) ==
    Len(s) >= Len(suffix) /\ SubSeq(s, Len(s) - Len(suffix) + 1, Len(s)) = suffix

TrimSuffix(s, suffix) ==
    IF HasSuffix(s, suffix) THEN SubSeq(s, 1, Len(s) - Len(suffix)) ELSE s

TrimPrefix(s, prefix) ==
    IF HasPrefix(s, prefix) THEN SubSeq(s, Len(prefix) + 1, Len(s)) ELSE s

\* os.Stat(newPath), line 79: err == nil
StatSucceeds(d, newName) == \E e \in d : e.name = newName /\ e.kind # "link"

\* os.Rename, line 84: the entry moves to the new name, replacing what is there
Rename(d, oldName, newName) ==
    LET old == CHOOSE e \in d : e.name = oldName IN
    { e \in d : e.name \notin {oldName, newName} } \cup {[name |-> newName, kind |-> old.kind]}

\* lines 29-53: the flag, the directory checks and the listing
ListDirectory ==
    /\ pc = "rename"
    /\ \E flag \in { <<"t","x","t">>, <<".","t","x","t">> },
          outcome \in {"ok", "stat", "notDir", "readDir"} :
          IF outcome = "ok"
          THEN /\ extension' = TrimPrefix(flag, <<".">>)
               /\ entries' = ReadDir(dir)
               /\ idx' = 1
               /\ pc' = "loop"
          ELSE /\ pc' = "fatal"
               /\ UNCHANGED <<extension, entries, idx>>
    /\ UNCHANGED <<keyVars, signArgs, signLocals, ret, caller, envVars, stdout, ran, failedAt,
                   baseName, cleaned, dir, renamedCount, reported, renames>>

\* lines 55-94: one iteration of the loop
ProcessEntry ==
    /\ pc = "loop"
    /\ idx <= Len(entries)
    /\ idx' = idx + 1
    /\ LET entry == entries[idx]
           oldName == entry.name
           base == TrimSuffix(oldName, Ext(oldName))
           res == cleanFileName(base)
           newName == res.text \o <<".">> \o extension
       IN IF entry.kind = "dir"
          THEN UNCHANGED <<baseName, cleaned, dir, renamedCount, renames>>
          ELSE /\ baseName' = base
               /\ cleaned' = res
               /\ IF res.err \/ oldName = newName \/ StatSucceeds(dir, newName)
                  THEN UNCHANGED <<dir, renamedCount, renames>>
                  ELSE \E renameErr \in BOOLEAN :
                          IF renameErr
                          THEN UNCHANGED <<dir, renamedCount, renames>>
                          ELSE /\ dir' = Rename(dir, oldName, newName)
                               /\ renamedCount' = renamedCount + 1
                               /\ renames' = Append(renames,
                                     [index |-> idx, old |-> oldName, new |-> newName,
                                      replaced |-> { e \in dir : e.name = newName }])
    /\ UNCHANGED <<keyVars, signArgs, signLocals, ret, caller, envVars, stdout, ran, failedAt,
                   extension, entries, reported, pc>>

\* line 96: the loop is over; the count is printed
Complete ==
    /\ pc = "loop"
    /\ idx > Len(entries)
    /\ reported' = renamedCount
    /\ pc' = "done"
    /\ UNCHANGED <<keyVars, signArgs, signLocals, ret, caller, envVars, stdout, ran, failedAt,
                   baseName, cleaned, dir, extension, entries, idx, renamedCount, renames>>

(***************************************************************************)
(* SpecRename: a run on every directory of at most MaxEntries entries,     *)
(* with distinct names from FileNames, each a file, a subdirectory or a    *)
(* dangling link.                                                          *)
(***************************************************************************)
FileNames ==
    { <<"a"," ","b",".","d","a","t">>,
      <<"a","_","b",".","t","x","t">>,
      <<"a","~"," ","b",".","d","a","t">>,
      <<"A",".","t","x","t">>,
      <<"a",".","t","x","t">>,
      <<"a","b",".","t","x","t">>,
      <<"1",".","d","a","t">>,
      <<"s","u","b">> }

EntryKinds == {"file", "dir", "link"}

Directories ==
    UNION { { { [name |-> n, kind |-> kindOf[n]] : n \in names } :
              kindOf \in [names -> EntryKinds] } :
            names \in { N \in SUBSET FileNames : Cardinality(N) <= MaxEntries } }

InitRename ==
    /\ pc = "rename"
    /\ caller = "rename"
    /\ dir \in Directories
    /\ baseName = <<>>
    /\ cleaned = [text |-> <<>>, err |-> FALSE]
    /\ extension = <<>>
    /\ entries = <<>>
    /\ idx = 0
    /\ renamedCount = 0
    /\ reported = -1
    /\ renames = <<>>
    /\ IdleKey
    /\ IdleSign
    /\ stdout = <<>>

NextRename == ListDirectory \/ ProcessEntry \/ Complete

SpecRename == InitRename /\ [][NextRename]_vars

(***************************************************************************)
(* SpecRerun: the command is run a second time on the directory the first  *)
(* run left, with the same extension.  The second invocation starts, as    *)
(* lines 29-54 do, with fresh locals; renames keeps the first run's log,   *)
(* so that its last renamedCount records are those of the second run.      *)
(***************************************************************************)
RunAgain ==
    /\ pc = "done"
    /\ caller = "rename"
    /\ caller' = "rerun"
    /\ pc' = "rename"
    /\ extension' = <<>>
    /\ entries' = <<>>
    /\ idx' = 0
    /\ renamedCount' = 0
    /\ reported' = -1
    /\ UNCHANGED <<keyVars, signArgs, signLocals, ret, envVars, stdout, ran, failedAt,
                   baseName, cleaned, dir, renames>>

NextRerun == ListDirectory \/ ProcessEntry \/ Complete \/ RunAgain

SpecRerun == InitRename /\ [][NextRerun]_vars

(***************************************************************************)
(* Claims about signCSRToPKCS7 (SpecSign).                                 *)
(***************************************************************************)
Last(s) == s[Len(s)]

\* C2: signCSRToPKCS7 runs its steps once, in order, and ends in exactly one
\* of (non-empty base64 text, no error) and (empty text, error); a failure of
\* any step makes it return that step's error at once, so that no later step
\* runs, and nothing is returned before the end.
C2_SingleShotFirstError ==
    /\ Len(ran) <= Len(StepOrder)
    /\ \A i \in 1..Len(ran) : ran[i] = StepOrder[i]
    /\ pc # "returned" => ret = NoRet
    /\ pc = "returned" =>
          \/ ret.err = "" /\ ret.text # <<>> /\ failedAt = {}
          \/ ret.err # "" /\ ret.text = <<>> /\ failedAt # {}
    /\ failedAt # {} =>
          /\ pc = "returned"
          /\ failedAt = {Last(ran)}
          /\ ret = [text |-> <<>>, err |-> ErrorOf(Last(ran))]
          /\ ret.err # "no error return"

\* C2's case: a marshal step failed after ten steps went well
C2_Witness ==
    /\ pc = "returned"
    /\ failedAt = {"signedData"}
    /\ Len(ran) = 11
    /\ ret.err = "failed to marshal signed data"

\* the indices of text at which a PEM block starts
PemBlockStarts(text) ==
    { i \in 1..Len(text) :
        /\ text[i].kind = "begin"
        /\ \/ /\ i + 2 <= Len(text)
              /\ text[i + 1].kind = "data"
              /\ text[i + 2].kind = "end"
              /\ text[i + 2].type = text[i].type
           \/ /\ i + 1 <= Len(text)
              /\ text[i + 1].kind = "end"
              /\ text[i + 1].type = text[i].type }

\* the first PEM block of text holds a certificate request
FirstBlockIsRequest(text) ==
    LET first == CHOOSE i \in PemBlockStarts(text) : \A j \in PemBlockStarts(text) : i <= j
    IN  text[first + 1].kind = "data" /\ text[first + 1].bytes.kind = "csr"

\* C3: on a CSR text without PEM block (the empty text among them), or whose
\* block is no certificate request, signCSRToPKCS7 returns the decode or the
\* parse error with an empty result; it never panics and never returns
\* success with an empty envelope.
C3_MalformedPemIsDecodeFailure ==
    /\ pc # "panic"
    /\ pc = "returned" =>
          /\ PemBlockStarts(csrPEM) = {} =>
                ret = [text |-> <<>>, err |-> "failed to decode CSR PEM"]
          /\ (PemBlockStarts(csrPEM) # {} /\ ~FirstBlockIsRequest(csrPEM)) =>
                ret = [text |-> <<>>, err |-> "failed to parse CSR"]
          /\ ret.err = "" => ret.text # <<>>

\* C3's case: the empty text was refused
C3_Witness ==
    /\ pc = "returned"
    /\ csrPEM = <<>>
    /\ ret.err = "failed to decode CSR PEM"

\* a DER element read back: its class, tag, constructed bit, content, and
\* the bytes that follow it
ParseTlv(b) ==
    LET long  == b[2] >= 128
        n     == IF long THEN b[2] - 128 ELSE 0
        len   == IF ~long THEN b[2]
                 ELSE IF n = 1 THEN b[3] ELSE b[3] * 256 + b[4]
        start == 3 + n
    IN  [Class |-> b[1] \div 64, IsCompound |-> (b[1] \div 32) % 2 = 1, Tag |-> b[1] % 32,
         Content |-> SubSeq(b, start, start + len - 1),
         Full |-> SubSeq(b, 1, start + len - 1),
         Rest |-> SubSeq(b, start + len, Len(b))]

\* the elements of a constructed element's content
RECURSIVE Elements(_)
Elements(bytes) ==
    IF bytes = <<>> THEN <<>> ELSE <<ParseTlv(bytes)>> \o Elements(ParseTlv(bytes).Rest)

\* the fields of the signed-data structure inside the envelope
EnvelopeFields == Elements(ParseTlv(pkcs7DER).Content)
SignedDataFields == Elements(Elements(EnvelopeFields[2].Content)[1].Content)

\* C5: in the envelope of a successful signCSRToPKCS7 the outer content-info
\* carries the signed-data object identifier and its content under
\* context-specific tag 0, constructed; the signed-data has version 1 and the
\* data object identifier as inner contentType; and its certificates field is
\* encoded with context-specific tag 0, constructed, and holds exactly one
\* element, the DER bytes of the certificate just created.
C5_CertificatesUnderContextTag0 ==
    (pc = "returned" /\ ret.err = "") =>
        /\ Len(EnvelopeFields) = 2
        /\ EnvelopeFields[1].Full = MarshalOID(oidSignedData)
        /\ EnvelopeFields[2].Class = 2 /\ EnvelopeFields[2].Tag = 0
        /\ EnvelopeFields[2].IsCompound
        /\ SignedDataFields[1].Full = <<2, 1, 1>>
        /\ Elements(SignedDataFields[3].Content) = <<ParseTlv(MarshalOID(oidData))>>
        /\ SignedDataFields[4].Class = 2 /\ SignedDataFields[4].Tag = 0
        /\ SignedDataFields[4].IsCompound
        /\ Len(Elements(SignedDataFields[4].Content)) = 1
        /\ Elements(SignedDataFields[4].Content)[1].Full = cert.certBytes

\* what of C5 the code does: everything but the tag of the certificates
\* field, which is the universal SEQUENCE tag
C5_EnvelopeShape ==
    (pc = "returned" /\ ret.err = "") =>
        /\ Len(EnvelopeFields) = 2
        /\ EnvelopeFields[1].Full = MarshalOID(oidSignedData)
        /\ EnvelopeFields[2].Class = 2 /\ EnvelopeFields[2].Tag = 0
        /\ EnvelopeFields[2].IsCompound
        /\ SignedDataFields[1].Full = <<2, 1, 1>>
        /\ Elements(SignedDataFields[3].Content) = <<ParseTlv(MarshalOID(oidData))>>
        /\ SignedDataFields[4].Class = 0 /\ SignedDataFields[4].Tag = 16
        /\ SignedDataFields[4].IsCompound
        /\ Len(Elements(SignedDataFields[4].Content)) = 1
        /\ Elements(SignedDataFields[4].Content)[1].Full = cert.certBytes

\* C6: in the envelope of a successful signCSRToPKCS7 the digest-algorithms
\* field and the signer-infos field are each a zero-length element tagged as
\* SET, and there is no CRLs field.
C6_EmptySetsAreSets ==
    (pc = "returned" /\ ret.err = "") =>
        /\ Len(SignedDataFields) = 5
        /\ \A i \in {2, 5} :
              /\ SignedDataFields[i].Class = 0
              /\ SignedDataFields[i].Tag = 17
              /\ SignedDataFields[i].IsCompound
              /\ SignedDataFields[i].Content = <<>>
        /\ \A i \in 1..Len(SignedDataFields) :
              ~(SignedDataFields[i].Class = 2 /\ SignedDataFields[i].Tag = 1)

\* what of C6 the code does: both fields are zero-length SEQUENCEs, and
\* there is no CRLs field
C6_EmptySequences ==
    (pc = "returned" /\ ret.err = "") =>
        /\ Len(SignedDataFields) = 5
        /\ SignedDataFields[2].Full = <<48, 0>>
        /\ SignedDataFields[5].Full = <<48, 0>>
        /\ \A i \in 1..Len(SignedDataFields) :
              ~(SignedDataFields[i].Class = 2 /\ SignedDataFields[i].Tag = 1)

\* the indices of the names that parse as a URI with a non-empty scheme
UriIndices(dns) ==
    { i \in 1..Len(dns) : ~UrlParse(dns[i]).err /\ UrlParse(dns[i]).Scheme # <<>> }

\* the k-th smallest element of a set of numbers
Kth(S, k) == CHOOSE i \in S : Cardinality({ j \in S : j <= i }) = k

\* C7: the template copies the CSR's DNS-name list unchanged, and its URI
\* list is the subsequence, in order and with multiplicity, of the DNS names
\* that parse as a URI with a non-empty scheme.
C7_UrisAreTheAbsoluteDnsNames ==
    "template" \in Range(ran) =>
        /\ template.DNSNames = csr.DNSNames
        /\ Len(template.URIs) = Cardinality(UriIndices(csr.DNSNames))
        /\ \A k \in 1..Len(template.URIs) :
              template.URIs[k] = UrlParse(csr.DNSNames[Kth(UriIndices(csr.DNSNames), k)])

\* C7's case: of two names, the first has a scheme and fails to parse, the
\* second is a URI
C7_Witness ==
    /\ "template" \in Range(ran)
    /\ csr.DNSNames = << <<"A", ":", "/", "/", "b", ":", "c">>, <<"a", ":", "b">> >>
    /\ Len(template.URIs) = 1
    /\ template.URIs[1].Scheme = <<"a">>

\* the number of days from 1970-01-01 to a civil date
DaysFromCivil(t) ==
    LET y   == IF t.month <= 2 THEN t.year - 1 ELSE t.year
        era == y \div 400
        yoe == y - era * 400
        mp  == (t.month + 9) % 12
        doy == (153 * mp + 2) \div 5 + t.day - 1
        doe == yoe * 365 + yoe \div 4 - yoe \div 100 + doy
    IN  era * 146097 + doe - 719468

\* C8: notBefore is one reading of the clock, notAfter is notBefore plus
\* exactly validityDays days, the template carries both, and the certificate
\* is issued by its own subject and signed with the signing key.
C8_ValidityAndSelfSigned ==
    /\ "now" \in Range(ran) =>
          /\ DaysFromCivil(notBefore) = DaysFromCivil(clock)
          /\ notBefore.sec <= clock.sec
    /\ "addDate" \in Range(ran) =>
          /\ DaysFromCivil(notAfter) = DaysFromCivil(notBefore) + validityDays
          /\ notAfter.sec = notBefore.sec
          /\ notAfter.month \in 1..12
          /\ notAfter.day \in 1..DaysIn(notAfter.month, notAfter.year)
    /\ "template" \in Range(ran) =>
          template.NotBefore = notBefore /\ template.NotAfter = notAfter
    /\ ("create" \in Range(ran) /\ failedAt = {}) =>
          /\ cert.Issuer = cert.Subject
          /\ cert.Subject = csr.Subject
          /\ cert.SignedBy = signingPrivateKey
          /\ cert.NotBefore = notBefore
          /\ cert.NotAfter = notAfter

\* C8's case: a certificate for 365 days from 2024-02-28, the clock having
\* advanced since it was read
C8_Witness ==
    /\ "create" \in Range(ran)
    /\ failedAt = {}
    /\ validityDays = 365
    /\ notBefore = [year |-> 2024, month |-> 2, day |-> 28, sec |-> 0]
    /\ notAfter = [year |-> 2025, month |-> 2, day |-> 27, sec |-> 0]
    /\ clock.sec > 0

(***************************************************************************)
(* Claims about CertificateGeneration (SpecGen).                           *)
(***************************************************************************)
BlockOrder == <<"Private key PEM", "CSR PEM", "PKCS#7 Certificate (Base64)">>

BlocksPrinted == SelectSeq(stdout, LAMBDA e : e.kind = "block")
ErrorsPrinted == SelectSeq(stdout, LAMBDA e : e.kind = "error")

Failed(err) == err \notin {"unset", ""}

\* C4: the blocks appear in the order private key, CSR, envelope; a block is
\* printed only if its stage and all earlier stages succeeded, and it holds
\* that stage's output; once a stage fails, a message naming the stage and
\* its cause is printed and the run ends without printing any later block.
C4_BlocksInOrderUntilFirstFailure ==
    /\ Len(BlocksPrinted) <= 3
    /\ \A i \in 1..Len(BlocksPrinted) : BlocksPrinted[i].label = BlockOrder[i]
    /\ Len(BlocksPrinted) >= 1 =>
          keyErr = "" /\ BlocksPrinted[1].text = keyPair.PrivateKeyPEM
    /\ Len(BlocksPrinted) >= 2 =>
          csrResult.err = "" /\ BlocksPrinted[2].text = csrResult.CSRPEM
    /\ Len(BlocksPrinted) >= 3 =>
          ret.err = "" /\ BlocksPrinted[3].text = ret.text
    /\ Len(ErrorsPrinted) <= 1
    /\ Len(ErrorsPrinted) = 1 =>
          /\ Last(stdout).kind = "error"
          /\ pc = "exit"
    /\ Failed(keyErr) =>
          /\ Len(ErrorsPrinted) = 1 /\ Len(BlocksPrinted) = 0
          /\ Last(stdout).label = "Error generating key pair"
          /\ Last(stdout).cause = keyErr
    /\ (Failed(csrResult.err) /\ pc # "csrReturned") =>
          /\ Len(ErrorsPrinted) = 1 /\ Len(BlocksPrinted) = 1
          /\ Last(stdout).label = "Error creating CSR"
          /\ Last(stdout).cause = csrResult.err
    /\ (Failed(ret.err) /\ pc # "returned") =>
          /\ Len(ErrorsPrinted) = 1 /\ Len(BlocksPrinted) = 2
          /\ Last(stdout).label = "Error signing CSR"
          /\ Last(stdout).cause = ret.err
    /\ Len(ErrorsPrinted) = 1 =>
          Failed(keyErr) \/ Failed(csrResult.err) \/ Failed(ret.err)
    /\ (pc = "exit" /\ Len(ErrorsPrinted) = 0) => Len(BlocksPrinted) = 3

\* C4's cases: a run that printed two blocks and then the failure of the
\* third stage, and a run that printed all three blocks
C4_Witness ==
    /\ pc = "exit"
    /\ Len(BlocksPrinted) = 2
    /\ Last(stdout).label = "Error signing CSR"
    /\ Last(stdout).cause = "failed to create certificate"

C4_WitnessAllBlocks ==
    /\ pc = "exit"
    /\ Len(BlocksPrinted) = 3
    /\ Len(ErrorsPrinted) = 0

(***************************************************************************)
(* Claims about cleanFileName (SpecClean).                                 *)
(***************************************************************************)
\* the positions of the characters of a cleaned name that are not underscores
KeptPositions(out) == { j \in 1..Len(out) : out[j] # "_" }

\* S, a set of positions of name, is where the kept characters of out come
\* from: in order, each the lower-cased letter or the digit at its position,
\* and each underscore of out has whitespace of name between the positions
\* its two neighbours come from
ComesFrom(out, name, S) ==
    /\ Cardinality(S) = Cardinality(KeptPositions(out))
    /\ \A k \in 1..Cardinality(S) :
          /\ IsLetter(name[Kth(S, k)]) \/ IsDigit(name[Kth(S, k)])
          /\ out[Kth(KeptPositions(out), k)] = ToLower(name[Kth(S, k)])
    /\ \A j \in 2..(Len(out) - 1) :
          out[j] = "_" =>
             LET k == Cardinality({ q \in KeptPositions(out) : q < j }) IN
             \E i \in (Kth(S, k) + 1)..(Kth(S, k + 1) - 1) : IsSpace(name[i])

C9_WitnessUnderscore ==
    /\ pc = "cleaned"
    /\ baseName = <<" ", "B", " ", "\t", "a">>
    /\ cleaned = [text |-> <<"b", "_", "a">>, err |-> FALSE]

C9_WitnessError ==
    /\ pc = "cleaned"
    /\ baseName = <<"1", " ", "_">>
    /\ cleaned.err

(***************************************************************************)
(* Claims about UpdateAndRenameFilesInDirectory (SpecRename).              *)
(***************************************************************************)
\* the name the loop computes for the entry at position i of the listing,
\* <<>> when the entry is a subdirectory or its name does not clean
TargetOf(i) ==
    LET oldName == entries[i].name
        res == cleanFileName(TrimSuffix(oldName, Ext(oldName)))
    IN IF entries[i].kind = "dir" \/ res.err THEN <<>>
       ELSE res.text \o <<".">> \o extension

RenamedIndices == { renames[k].index : k \in 1..Len(renames) }

\* what holds of every run: subdirectories are never renamed, the reported
\* count is the number of renames performed, and a rename replaces nothing
\* but a dangling link
C10_CountAndDirectories ==
    /\ \A i \in RenamedIndices : entries[i].kind # "dir"
    /\ renamedCount = Len(renames)
    /\ pc = "done" => reported = Len(renames)
    /\ \A k \in 1..Len(renames) : \A e \in renames[k].replaced : e.kind = "link"

\* C10: a file is renamed only when no entry exists at the target name at
\* that moment and subdirectories are never renamed, so the directory holds
\* as many entries after the run as before; of the files that clean to one
\* target name none but the first in listing order is renamed; the reported
\* count is the number of renames performed.
C10_NeverOverwritesFirstWins ==
    /\ \A k \in 1..Len(renames) : renames[k].replaced = {}
    /\ \A i \in RenamedIndices : entries[i].kind # "dir"
    /\ pc \in {"loop", "done"} => Cardinality(dir) = Len(entries)
    /\ pc = "done" =>
          /\ reported = Len(renames)
          /\ \A i, j \in 1..Len(entries) :
                (i < j /\ TargetOf(i) # <<>> /\ TargetOf(i) = TargetOf(j))
                   => j \notin RenamedIndices

\* the run on "a b.dat", "a_b.txt", "a~ b.dat" with extension txt: the first
\* file is skipped, the second renamed to "ab.txt", the third to "a_b.txt"
C10_LaterFileTakesTheName ==
    /\ pc = "done"
    /\ Len(entries) = 3
    /\ TargetOf(1) = TargetOf(3)
    /\ RenamedIndices = {2, 3}
    /\ \A k \in 1..Len(renames) : renames[k].replaced = {}

\* the run in which a rename replaced a dangling link
C10_LinkReplaced ==
    /\ pc = "done"
    /\ \E k \in 1..Len(renames) : renames[k].replaced # {}
    /\ Cardinality(dir) < Len(entries)

(***************************************************************************)
(* Claims about a second run (SpecRerun).                                  *)
(***************************************************************************)
\* the number of renames the first run performed, once the second has begun
FirstRunRenames == Len(renames) - renamedCount

\* the names the first run gave
FirstRunNames == { renames[k].new : k \in 1..FirstRunRenames }

\* C11: renaming is idempotent: a second run with the same extension renames
\* no file that the first run renamed, that is, every name cleanFileName
\* returns is cleaned to itself.
C11_RenamingIsIdempotent ==
    /\ (pc \in {"loop", "done"} /\ ~cleaned.err /\ cleaned.text # <<>>)
          => cleanFileName(cleaned.text) = cleaned
    /\ caller = "rerun" =>
          \A k \in (FirstRunRenames + 1)..Len(renames) :
             renames[k].old \notin FirstRunNames

\* the two runs on the single file "a b.dat" with extension txt: the first
\* renames it to "a_b.txt", the second renames "a_b.txt" to "ab.txt"
C11_SecondRunRenamesAgain ==
    /\ caller = "rerun"
    /\ pc = "done"
    /\ Len(entries) = 1
    /\ Len(renames) = 2
    /\ renames[1].old = <<"a", " ", "b", ".", "d", "a", "t">>
    /\ renames[1].new = <<"a", "_", "b", ".", "t", "x", "t">>
    /\ renames[2].old = renames[1].new
    /\ renames[2].new = <<"a", "b", ".", "t", "x", "t">>
    /\ reported = 1

\* what holds instead: a third cleaning changes nothing, since the second
\* removes every underscore and leaves letters and digits behind letters
C11_CleanedTwiceIsStable ==
    (pc \in {"loop", "done"} /\ ~cleaned.err /\ cleaned.text # <<>>) =>
       LET twice == cleanFileName(cleaned.text) IN
       /\ ~twice.err
       /\ cleanFileName(twice.text) = twice

====
